---- MODULE Spec2Model ----
(***************************************************************************)
(* Model of worklog_summary.py: a monthly Jira worklog report.             *)
(*                                                                         *)
(* Dates are proleptic Gregorian ordinals (date.toordinal()), wall-clock   *)
(* times are minutes since ordinal day 0, UTC offsets are minutes.         *)
(* Strings that the program only splits, parses or prefix-tests are        *)
(* modelled by the structure those operations read.                        *)
(***************************************************************************)
EXTENDS Integers, Sequences, FiniteSets, TLC

VARIABLES
    pc,               \* position of the process in main / in the function under study
    input,            \* arguments of the run: --month, --label-prefix, the clock
    output,           \* value returned by the pure function under study
    window,           \* result of resolve_month_bounds
    business_days,    \* main: business_days
    capacity_seconds, \* main: capacity_seconds
    me,               \* main: body of /myself (accountId, displayName)
    inflight,         \* the GET request the process is blocked on, or NoRequest
    issues,           \* search_issues: issues
    start_at,         \* search_issues / worklogs: start_at
    idx,              \* main: position of the outer for loop in the issue list
    logs,             \* worklogs: logs
    widx,             \* main: position of the inner for loop in the worklog list
    seconds,          \* main: seconds
    total,            \* main: total
    per_issue,        \* main: per_issue
    rank,             \* main: i, the enumerate index of the printing loop
    running,          \* main: running
    stdout,           \* lines printed to sys.stdout
    stderr,           \* lines printed to sys.stderr
    exit_code,        \* process exit status, NotExited while running
    source,           \* the remote tracker (environment)
    reqlog,           \* history: endpoints requested, consecutive repeats merged
    expected,         \* history: rows the fetched data call for, by the definition of S(i)
    unsorted,         \* history: per_issue as it was when the sort began
    failure,          \* history: first response received with a status other than 200
    timed_out,        \* history: whether a request ran into the timeout
    bad               \* history: author class of an unparsable timestamp in a fetched list

vars == <<pc, input, output, window, business_days, capacity_seconds, me, inflight,
          issues, start_at, idx, logs, widx, seconds, total, per_issue, rank, running,
          stdout, stderr, exit_code, source, reqlog, expected, unsorted, failure,
          timed_out, bad>>

\* values of variables that hold nothing yet
NoRequest == [ep |-> "none", key |-> 0, startAt |-> 0, maxResults |-> 0]
NoWindow == [kind |-> "none"]
NoUser == [accountId |-> "", displayName |-> ""]
NoFailure == [status |-> 200, text |-> ""]
NoOutput == [kind |-> "none"]
NoSource == [n |-> 0, cap |-> 0]
NotExited == 0 - 1

\* ------------------------------------------------------------------ bounds

MinYear == 2023
MaxYear == 2025
MaxIssues == 2
MaxLogs == 2
MaxTotal == 250

\* ------------------------------------------------------- program constants

HOURS_PER_WORKDAY == 8
MINYEAR == 1
MAXYEAR == 9999

\* ---------------------------------------------------------------- calendar

IsLeap(y) == (y % 4 = 0) /\ ((y % 100 # 0) \/ (y % 400 = 0))

DaysBeforeYear(y) ==
    LET p == y - 1 IN p * 365 + (p \div 4) - (p \div 100) + (p \div 400)

DaysInMonth(y, m) ==
    IF m = 2 THEN (IF IsLeap(y) THEN 29 ELSE 28)
    ELSE IF m \in {4, 6, 9, 11} THEN 30 ELSE 31

RECURSIVE DaysBeforeMonth(_, _)
DaysBeforeMonth(y, m) ==
    IF m = 1 THEN 0 ELSE DaysBeforeMonth(y, m - 1) + DaysInMonth(y, m - 1)

\* date(y, m, d).toordinal()
Ordinal(y, m, d) == DaysBeforeYear(y) + DaysBeforeMonth(y, m) + d

\* date.weekday(): Monday is 0, Sunday is 6
Weekday(ord) == (ord + 6) % 7

\* count_business_days: the while loop, one iteration per unfolding
RECURSIVE CountLoopInclusiveEnd(_, _, _)
CountLoopInclusiveEnd(d, end_exclusive, cnt) ==
    IF d <= end_exclusive
    THEN CountLoopInclusiveEnd(d + 1, end_exclusive,
                               IF Weekday(d) < 5 THEN cnt + 1 ELSE cnt)
    ELSE cnt

RECURSIVE CountLoop(_, _, _)
CountLoop(d, end_exclusive, cnt) ==
    IF d < end_exclusive
    THEN CountLoop(d + 1, end_exclusive,
                   IF Weekday(d) < 5 THEN cnt + 1 ELSE cnt)
    ELSE cnt

count_business_days(start_inclusive, end_exclusive) ==
    CountLoop(start_inclusive, end_exclusive, 0)

\* ------------------------------------------------- ZONE = Europe/Luxembourg

\* ordinal of the last Sunday of month m of year y
LastSunday(y, m) ==
    LET last == Ordinal(y, m, DaysInMonth(y, m))
    IN  last - ((Weekday(last) + 1) % 7)

\* Summer time runs from 01:00 UTC on the last Sunday of March to 01:00 UTC
\* on the last Sunday of October; the offset is +60 in winter, +120 in summer.
DstStartUtc(y) == LastSunday(y, 3) * 1440 + 60
DstEndUtc(y) == LastSunday(y, 10) * 1440 + 60

ZoneYears == (MinYear - 1)..(MaxYear + 1)

\* ZONE.utcoffset of an instant given in UTC minutes (used by astimezone)
ZoneOffsetOfUtc(u) ==
    IF \E y \in ZoneYears : DstStartUtc(y) <= u /\ u < DstEndUtc(y)
    THEN 120 ELSE 60

\* ZONE.utcoffset of a wall-clock time with fold = 0 (used by datetime.combine):
\* a wall time in the spring gap keeps the winter offset, a wall time in the
\* autumn overlap takes the summer offset.
ZoneOffsetOfWall(w) ==
    IF \E y \in ZoneYears : DstStartUtc(y) + 120 <= w /\ w < DstEndUtc(y) + 120
    THEN 120 ELSE 60

\* An aware datetime is [wall, tz, off]: wall-clock minutes, the tzinfo object
\* ("ZONE" or "fixed") and its utcoffset in minutes.
ZoneDateTime(w) == [wall |-> w, tz |-> "ZONE", off |-> ZoneOffsetOfWall(w)]

UtcOf(dt) == dt.wall - dt.off

\* datetime.astimezone(ZONE)
AsTimezone(dt) ==
    LET u == UtcOf(dt)
        o == ZoneOffsetOfUtc(u)
    IN  [wall |-> u + o, tz |-> "ZONE", off |-> o]

\* datetime.__le__ / __lt__ on aware datetimes: operands that share the tzinfo
\* object are compared by wall clock, others by UTC instant.
DtLe(a, b) ==
    IF a.tz = "ZONE" /\ b.tz = "ZONE" THEN a.wall <= b.wall ELSE UtcOf(a) <= UtcOf(b)

DtLt(a, b) ==
    IF a.tz = "ZONE" /\ b.tz = "ZONE" THEN a.wall < b.wall ELSE UtcOf(a) < UtcOf(b)

\* --------------------------------------------------- resolve_month_bounds

\* The --month argument is [given, blank, tokens]: tokens are the pieces of
\* month.split("-"), each [int |-> whether int() accepts it, val |-> its value].
Tok(v) == [int |-> TRUE, val |-> v]
NotInt == [int |-> FALSE, val |-> 0]
MonthArg(toks) == [given |-> TRUE, blank |-> FALSE, tokens |-> toks]
NoMonth == [given |-> FALSE, blank |-> FALSE, tokens |-> <<>>]
BlankMonth == [given |-> TRUE, blank |-> TRUE, tokens |-> <<>>]

DateOk(y) == MINYEAR <= y /\ y <= MAXYEAR

\* lines 57-63, once year and mon are known
BoundsOf(ym, year, mon) ==
    LET ey == IF mon = 12 THEN year + 1 ELSE year
        em == IF mon = 12 THEN 1 ELSE mon + 1
    IN  IF ~DateOk(year) \/ ~DateOk(ey)
        THEN [kind |-> "raise", msg |-> "ValueError"]
        ELSE [kind |-> "ok", ym |-> ym,
              start |-> ZoneDateTime(Ordinal(year, mon, 1) * 1440),
              end_excl |-> ZoneDateTime(Ordinal(ey, em, 1) * 1440),
              start_d |-> Ordinal(year, mon, 1),
              end_d |-> Ordinal(ey, em, 1)]

resolve_month_bounds(month, now) ==
    IF month.given /\ ~month.blank
    THEN LET t == month.tokens IN
         IF Len(t) # 2 \/ (\E i \in 1..Len(t) : ~t[i].int)
            \/ ~(1 <= t[2].val /\ t[2].val <= 12)
         THEN [kind |-> "die", msg |-> "--month must be in YYYY-MM format"]
         ELSE BoundsOf(<<t[1].val, t[2].val>>, t[1].val, t[2].val)
    ELSE BoundsOf(now, now[1], now[2])

\* ------------------------------------------------------------------- die

\* die(msg): one ERROR line on stderr, then sys.exit(2)
DieLine(msg) == [kind |-> "ERROR", msg |-> msg]
TracebackLine(exc) == [kind |-> "Traceback", msg |-> exc]

\* ------------------------------------------------------ parse_jira_started

\* A "started" string is [ord, minute, sep, frac, hastz, tz]: its date as an
\* ordinal, its time of day in minutes, the separator between them, whether
\* it carries fractional seconds and whether it ends in a UTC offset tz.
\* Both accepted formats want the separator T and an offset; the fraction is
\* what tells them apart.
parse_jira_started_naive(s) ==
    IF s.sep = "T"
    THEN [kind |-> "ok",
          dt |-> [wall |-> s.ord * 1440 + s.minute, tz |-> "fixed",
                  off |-> IF s.hastz THEN s.tz ELSE 0]]
    ELSE [kind |-> "die", msg |-> <<"Cannot parse Jira worklog timestamp", s>>]

parse_jira_started(s) ==
    IF s.sep = "T" /\ s.hastz
    THEN [kind |-> "ok",
          dt |-> [wall |-> s.ord * 1440 + s.minute, tz |-> "fixed", off |-> s.tz]]
    ELSE [kind |-> "die", msg |-> <<"Cannot parse Jira worklog timestamp", s>>]

\* the string that writes the instant u (UTC minutes) at UTC offset off
Stamp(u, off, frac) ==
    [ord |-> (u + off) \div 1440, minute |-> (u + off) % 1440, sep |-> "T",
     frac |-> frac, hastz |-> TRUE, tz |-> off]

\* the same without an offset: neither format matches it
NaiveStamp(u) ==
    [ord |-> u \div 1440, minute |-> u % 1440, sep |-> "T",
     frac |-> TRUE, hastz |-> FALSE, tz |-> 0]

\* line 186: start <= started < end_excl
InWindowClosedEnd(started, start, end_excl) ==
    DtLe(start, started) /\ DtLe(started, end_excl)

InWindow(started, start, end_excl) ==
    DtLe(start, started) /\ DtLt(started, end_excl)

\* ------------------------------------------------------------ issue_matches

\* A label or prefix is a sequence of characters; str.startswith
StartsWith(lab, p) == Len(p) <= Len(lab) /\ SubSeq(lab, 1, Len(p)) = p

issue_matches_reversed(labels, prefixes) ==
    \E i \in 1..Len(labels) : \E j \in 1..Len(prefixes) :
        StartsWith(prefixes[j], labels[i])

issue_matches(labels, prefixes) ==
    \E i \in 1..Len(labels) : \E j \in 1..Len(prefixes) :
        StartsWith(labels[i], prefixes[j])

\* -------------------------------------------------------- normalize_prefixes

\* A --label-prefix argument is the sequence of its comma-separated pieces,
\* each a sequence of characters; " " is the whitespace str.strip removes.
RECURSIVE LStrip(_)
LStrip(p) == IF p # <<>> /\ Head(p) = " " THEN LStrip(Tail(p)) ELSE p

RECURSIVE RStrip(_)
RStrip(p) ==
    IF p # <<>> /\ p[Len(p)] = " " THEN RStrip(SubSeq(p, 1, Len(p) - 1)) ELSE p

Strip(p) == RStrip(LStrip(p))

RECURSIVE Flatten(_)
Flatten(ss) == IF ss = <<>> THEN <<>> ELSE Head(ss) \o Flatten(Tail(ss))

\* list(dict.fromkeys(out)): first occurrences, in order
RECURSIVE Dedup(_, _)
Dedup(out, seen) ==
    IF out = <<>> THEN <<>>
    ELSE IF Head(out) \in seen THEN Dedup(Tail(out), seen)
    ELSE <<Head(out)>> \o Dedup(Tail(out), seen \cup {Head(out)})

normalize_prefixes(args) ==
    LET pieces == Flatten(args)
        kept == SelectSeq(pieces, LAMBDA p : Strip(p) # <<>>)
    IN  Dedup([k \in 1..Len(kept) |-> Strip(kept[k])], {})

\* ---------------------------------------------------------------- get_json

MaxResults == 100

\* A response is [outcome, status, text, body]: outcome "timeout" when
\* session.get raised after the timeout, else "response".
get_json_any_status(req, resp) ==
    IF resp.outcome = "timeout"
    THEN [kind |-> "raise", msg |-> "Timeout"]
    ELSE [kind |-> "ok", body |-> resp.body]

get_json(req, resp) ==
    IF resp.outcome = "timeout"
    THEN [kind |-> "raise", msg |-> "Timeout"]
    ELSE IF resp.status # 200
    THEN [kind |-> "die", msg |-> <<"HTTP", resp.status, req.ep, req.key, resp.text>>]
    ELSE [kind |-> "ok", body |-> resp.body]

\* One pass through the body of the while loop of search_issues / worklogs
\* after get_json returned: extend, advance start_at, test for the break.
PageStepFixedStride(acc, sa, body) ==
    LET sa2 == sa + MaxResults
    IN  [items |-> acc \o body.items, start_at |-> sa2, done |-> sa2 >= body.total]

PageStep(acc, sa, body) ==
    LET sa2 == sa + Len(body.items)
    IN  [items |-> acc \o body.items, start_at |-> sa2, done |-> sa2 >= body.total]

\* ------------------------------------------------------------- report order

\* list.sort(key=seconds, reverse=True) is stable: a row goes behind every
\* row already placed whose seconds are not smaller.
RECURSIVE InsertDescBeforeTies(_, _)
InsertDescBeforeTies(sorted, r) ==
    IF sorted = <<>> THEN <<r>>
    ELSE IF Head(sorted).seconds > r.seconds
    THEN <<Head(sorted)>> \o InsertDescBeforeTies(Tail(sorted), r)
    ELSE <<r>> \o sorted

RECURSIVE InsertDesc(_, _)
InsertDesc(sorted, r) ==
    IF sorted = <<>> THEN <<r>>
    ELSE IF Head(sorted).seconds >= r.seconds
    THEN <<Head(sorted)>> \o InsertDesc(Tail(sorted), r)
    ELSE <<r>> \o sorted

RECURSIVE SortDescFrom(_, _)
SortDescFrom(rows, sorted) ==
    IF rows = <<>> THEN sorted
    ELSE SortDescFrom(Tail(rows), InsertDesc(sorted, Head(rows)))

SortDesc(rows) == SortDescFrom(rows, <<>>)

\* ------------------------------------------------------------ environment

Min(a, b) == IF a < b THEN a ELSE b

OkResponse(body) == [outcome |-> "response", status |-> 200, text |-> "", body |-> body]

EmptyBody == [items |-> <<>>, total |-> 0]

\* what the tracker can answer instead: another status, or nothing in time
FailedResponses ==
    {[outcome |-> "response", status |-> st, text |-> "oops", body |-> EmptyBody] :
        st \in {201, 500}}
    \cup {[outcome |-> "timeout", status |-> 0, text |-> "", body |-> EmptyBody]}

MyselfResponses ==
    {OkResponse([accountId |-> "me", displayName |-> "Me"])} \cup FailedResponses

\* label lists an issue can carry (characters: p, r, x, o); the prefix of the
\* runs below is "pr"
LabelChoices ==
    { <<>>,
      << <<"p">>, <<"o", "p", "r">> >>,
      << <<"o">>, <<"p", "r", "x">> >> }

\* the n-th issue the tracker serves
IssueAt(n, labels) ==
    [key |-> n, fields |-> [summary |-> <<"summary", n>>, labels |-> labels]]

\* worklog entries the tracker can serve for a window: by author, started
\* and timeSpentSeconds.  Starts sit on the two ends of the window, written
\* at foreign offsets, or carry no offset at all.
Entry(author, started, secs) ==
    [author |-> [accountId |-> author], started |-> started, timeSpentSeconds |-> secs]

WorklogPool(win) ==
    LET s == UtcOf(win.start)
        e == UtcOf(win.end_excl)
    IN  { Entry("me", Stamp(s, 0, TRUE), 1),
          Entry("me", Stamp(e - 1, 330, FALSE), 2),
          Entry("me", Stamp(e, 0 - 300, TRUE), 1),
          Entry("you", Stamp(s, 60, TRUE), 4),
          Entry("me", NaiveStamp(s + 60), 1),
          Entry("you", NaiveStamp(s + 60), 1) }

\* the n-th worklog entry served for an issue
WorklogAt(n, entry) == [id |-> n] @@ entry

RECURSIVE SeqsUpTo(_, _)
SeqsUpTo(S, n) ==
    IF n = 0 THEN {<<>>}
    ELSE LET shorter == SeqsUpTo(S, n - 1)
         IN  shorter \cup {Append(q, x) : q \in {t \in shorter : Len(t) = n - 1}, x \in S}

\* pages any tracker may answer a search with, the issue list holding `have`
SearchResponses(have) ==
    {OkResponse([items |-> [k \in 1..Len(ls) |-> IssueAt(have + k, ls[k])], total |-> t]) :
        ls \in SeqsUpTo(LabelChoices, MaxIssues - have), t \in 0..MaxIssues}
    \cup FailedResponses

WorklogResponses(have, win) ==
    {OkResponse([items |-> [k \in 1..Len(es) |-> WorklogAt(have + k, es[k])], total |-> t]) :
        es \in SeqsUpTo(WorklogPool(win), MaxLogs - have), t \in 0..MaxLogs}
    \cup FailedResponses

\* A well-behaved source: source.n items, served in source order from startAt,
\* at most min(source.cap, maxResults) to a page, total always source.n.
SourceItem(ep, n) ==
    IF ep = "search" THEN IssueAt(n, <<>>)
    ELSE WorklogAt(n, Entry("me", Stamp(n, 0, TRUE), 1))

SourceItems(ep, lo, hi) == [k \in 1..(hi - lo) |-> SourceItem(ep, lo + k)]

SourceResponse(req) ==
    LET size == Min(source.cap, req.maxResults)
        hi == Min(source.n, req.startAt + size)
    IN  OkResponse([items |-> SourceItems(req.ep, req.startAt, hi), total |-> source.n])

\* ------------------------------------------------------------- histories

Log(log, e) == IF log # <<>> /\ log[Len(log)] = e THEN log ELSE Append(log, e)

NoteResponse(resp) ==
    /\ failure' = IF failure = NoFailure /\ resp.outcome = "response" /\ resp.status # 200
                  THEN [status |-> resp.status, text |-> resp.text]
                  ELSE failure
    /\ timed_out' = (timed_out \/ resp.outcome = "timeout")

\* a started string one of the two formats accepts
WellFormed(s) == s.sep = "T" /\ s.hastz

BadClass(ls, uid) ==
    IF \E k \in 1..Len(ls) : ls[k].author.accountId = uid /\ ~WellFormed(ls[k].started)
    THEN "own"
    ELSE IF \E k \in 1..Len(ls) : ~WellFormed(ls[k].started) THEN "other" ELSE "none"

\* the instant a well-formed started string names, in UTC minutes
InstantOf(s) == s.ord * 1440 + s.minute - s.tz

Counts(wl, uid, win) ==
    /\ wl.author.accountId = uid
    /\ UtcOf(win.start) <= InstantOf(wl.started)
    /\ InstantOf(wl.started) < UtcOf(win.end_excl)

\* S(i): the seconds of all entries of the list that count
RECURSIVE SumCounted(_, _, _)
SumCounted(ls, uid, win) ==
    IF ls = <<>> THEN 0
    ELSE (IF Counts(Head(ls), uid, win) THEN Head(ls).timeSpentSeconds ELSE 0)
         + SumCounted(Tail(ls), uid, win)

\* ------------------------------------------------------------------- main

Prefixes == normalize_prefixes(input.label_prefix)

\* die(msg) or an exception nobody catches: the line on stderr, the exit code
Abort(r) ==
    /\ pc' = "exit"
    /\ stderr' = Append(stderr, IF r.kind = "die" THEN DieLine(r.msg)
                                ELSE TracebackLine(r.msg))
    /\ exit_code' = IF r.kind = "die" THEN 2 ELSE 1

\* lines 155-159: prefixes, the month window, the capacity
Resolve ==
    /\ pc = "start"
    /\ LET r == resolve_month_bounds(input.month, input.now) IN
         IF r.kind = "ok"
         THEN /\ window' = r
              /\ business_days' = count_business_days(r.start_d, r.end_d)
              /\ capacity_seconds' = business_days' * HOURS_PER_WORKDAY * 3600
              /\ pc' = "myself"
              /\ UNCHANGED <<stderr, exit_code>>
         ELSE /\ Abort(r)
              /\ UNCHANGED <<window, business_days, capacity_seconds>>
    /\ UNCHANGED <<input, output, me, inflight, issues, start_at, idx, logs, widx,
                   seconds, total, per_issue, rank, running, stdout, source, reqlog,
                   expected, unsorted, failure, timed_out, bad>>

\* session.get: the request leaves and the process blocks on it
Send(ep, key, sa) ==
    /\ inflight = NoRequest
    /\ inflight' = [ep |-> ep, key |-> key, startAt |-> sa, maxResults |-> MaxResults]
    /\ reqlog' = Log(reqlog, [ep |-> ep, key |-> key])
    /\ UNCHANGED <<pc, input, output, window, business_days, capacity_seconds, me,
                   issues, start_at, idx, logs, widx, seconds, total, per_issue, rank,
                   running, stdout, stderr, exit_code, source, expected, unsorted,
                   failure, timed_out, bad>>

\* lines 161-162, 95-96, 90
SendMyself == pc = "myself" /\ Send("myself", 0, 0)

\* lines 162-164 (and 91-93): the answer to /myself
RecvMyself(resp) ==
    /\ pc = "myself" /\ inflight # NoRequest
    /\ inflight' = NoRequest
    /\ NoteResponse(resp)
    /\ LET r == get_json(inflight, resp) IN
         IF r.kind = "ok"
         THEN /\ me' = r.body
              /\ issues' = <<>>
              /\ start_at' = 0
              /\ pc' = "search"
              /\ UNCHANGED <<stderr, exit_code>>
         ELSE /\ Abort(r)
              /\ UNCHANGED <<me, issues, start_at>>
    /\ UNCHANGED <<input, output, window, business_days, capacity_seconds, idx, logs,
                   widx, seconds, total, per_issue, rank, running, stdout, source,
                   reqlog, expected, unsorted, bad>>

\* lines 102-110: the request for the next page of the search
SendSearch == pc = "search" /\ Send("search", 0, start_at)

\* lines 111-116 (and 91-93): one page of the search
SearchPage(resp) ==
    /\ pc = "search" /\ inflight # NoRequest
    /\ inflight' = NoRequest
    /\ NoteResponse(resp)
    /\ LET r == get_json(inflight, resp) IN
         IF r.kind = "ok"
         THEN LET st == PageStep(issues, start_at, r.body) IN
              /\ issues' = st.items
              /\ start_at' = st.start_at
              /\ pc' = IF st.done THEN "issues" ELSE "search"
              /\ idx' = IF st.done THEN 1 ELSE idx
              /\ UNCHANGED <<stderr, exit_code>>
         ELSE /\ Abort(r)
              /\ UNCHANGED <<issues, start_at, idx>>
    /\ UNCHANGED <<input, output, window, business_days, capacity_seconds, me, logs,
                   widx, seconds, total, per_issue, rank, running, stdout, source,
                   reqlog, expected, unsorted, bad>>

\* lines 176-182: the head of the outer loop, up to the call of worklogs
NextIssue ==
    /\ pc = "issues"
    /\ IF idx > Len(issues)
       THEN /\ pc' = "sort"
            /\ UNCHANGED <<idx, seconds, logs, start_at>>
       ELSE IF ~issue_matches(issues[idx].fields.labels, Prefixes)
       THEN /\ idx' = idx + 1
            /\ UNCHANGED <<pc, seconds, logs, start_at>>
       ELSE /\ seconds' = 0
            /\ logs' = <<>>
            /\ start_at' = 0
            /\ pc' = "worklogs"
            /\ UNCHANGED idx
    /\ UNCHANGED <<input, output, window, business_days, capacity_seconds, me, inflight,
                   issues, widx, total, per_issue, rank, running, stdout, stderr,
                   exit_code, source, reqlog, expected, unsorted, failure, timed_out,
                   bad>>

\* lines 122-125: the request for the next page of the issue's worklogs
SendWorklog == pc = "worklogs" /\ Send("worklog", issues[idx].key, start_at)

\* lines 126-131 (and 91-93): one page of the worklogs
WorklogPage(resp) ==
    /\ pc = "worklogs" /\ inflight # NoRequest
    /\ inflight' = NoRequest
    /\ NoteResponse(resp)
    /\ LET r == get_json(inflight, resp) IN
         IF r.kind = "ok"
         THEN LET st == PageStep(logs, start_at, r.body) IN
              /\ logs' = st.items
              /\ start_at' = st.start_at
              /\ pc' = IF st.done THEN "entries" ELSE "worklogs"
              /\ widx' = IF st.done THEN 1 ELSE widx
              /\ bad' = IF st.done /\ BadClass(st.items, me.accountId) # "none"
                        THEN BadClass(st.items, me.accountId) ELSE bad
              /\ UNCHANGED <<stderr, exit_code>>
         ELSE /\ Abort(r)
              /\ UNCHANGED <<logs, start_at, widx, bad>>
    /\ UNCHANGED <<input, output, window, business_days, capacity_seconds, me, issues,
                   idx, seconds, total, per_issue, rank, running, stdout, source,
                   reqlog, expected, unsorted>>

\* lines 183-187 for one entry: what the entry does to `seconds`
EntryStepAnyAuthor(wl, uid, win, secs) ==
    LET p == parse_jira_started(wl.started) IN
    IF p.kind # "ok" THEN p
    ELSE IF InWindow(AsTimezone(p.dt), win.start, win.end_excl)
         THEN [kind |-> "ok", seconds |-> secs + wl.timeSpentSeconds]
         ELSE [kind |-> "ok", seconds |-> secs]

EntryStep(wl, uid, win, secs) ==
    IF wl.author.accountId # uid THEN [kind |-> "ok", seconds |-> secs]
    ELSE LET p == parse_jira_started(wl.started) IN
         IF p.kind # "ok" THEN p
         ELSE IF InWindow(AsTimezone(p.dt), win.start, win.end_excl)
              THEN [kind |-> "ok", seconds |-> secs + wl.timeSpentSeconds]
              ELSE [kind |-> "ok", seconds |-> secs]

\* lines 182-187: one turn of the inner loop
NextEntry ==
    /\ pc = "entries" /\ widx <= Len(logs)
    /\ LET r == EntryStep(logs[widx], me.accountId, window, seconds) IN
         IF r.kind = "ok"
         THEN /\ seconds' = r.seconds
              /\ widx' = widx + 1
              /\ UNCHANGED <<pc, stderr, exit_code>>
         ELSE /\ Abort(r)
              /\ UNCHANGED <<seconds, widx>>
    /\ UNCHANGED <<input, output, window, business_days, capacity_seconds, me, inflight,
                   issues, start_at, idx, logs, total, per_issue, rank, running, stdout,
                   source, reqlog, expected, unsorted, failure, timed_out, bad>>

\* lines 189-193: the row of the issue
RowsAfter(rows, issue, secs) ==
    IF secs # 0
    THEN Append(rows, [key |-> issue.key, summary |-> issue.fields.summary,
                       seconds |-> secs])
    ELSE rows

\* lines 189-193, and back to the head of the outer loop
EndIssue ==
    /\ pc = "entries" /\ widx > Len(logs)
    /\ total' = IF seconds # 0 THEN total + seconds ELSE total
    /\ per_issue' = RowsAfter(per_issue, issues[idx], seconds)
    /\ idx' = idx + 1
    /\ pc' = "issues"
    /\ LET S == SumCounted(logs, me.accountId, window) IN
         expected' = IF S > 0
                     THEN Append(expected, [key |-> issues[idx].key,
                                            summary |-> issues[idx].fields.summary,
                                            seconds |-> S])
                     ELSE expected
    /\ UNCHANGED <<input, output, window, business_days, capacity_seconds, me, inflight,
                   issues, start_at, logs, widx, seconds, rank, running, stdout, stderr,
                   exit_code, source, reqlog, unsorted, failure, timed_out, bad>>

\* line 195
Sort ==
    /\ pc = "sort"
    /\ unsorted' = per_issue
    /\ per_issue' = SortDesc(per_issue)
    /\ pc' = "header"
    /\ UNCHANGED <<input, output, window, business_days, capacity_seconds, me, inflight,
                   issues, start_at, idx, logs, widx, seconds, total, rank, running,
                   stdout, stderr, exit_code, source, reqlog, expected, failure,
                   timed_out, bad>>

\* lines 197-210: pct and the eight lines above the rows
HeaderLines ==
    << [kind |-> "User", name |-> me.displayName],
       [kind |-> "Month", from |-> window.start_d, to |-> window.end_d - 1,
        ym |-> window.ym],
       [kind |-> "Label prefixes", prefixes |-> Prefixes],
       [kind |-> "blank"],
       [kind |-> "Capacity", business_days |-> business_days,
        hours |-> HOURS_PER_WORKDAY, capacity |-> capacity_seconds],
       [kind |-> "TOTAL", total |-> total,
        pct |-> IF capacity_seconds # 0 THEN <<100 * total, capacity_seconds>>
                ELSE <<0, 1>>],
       [kind |-> "blank"],
       [kind |-> "columns"] >>

PrintHeader ==
    /\ pc = "header"
    /\ stdout' = stdout \o HeaderLines
    /\ running' = 0
    /\ rank' = 1
    /\ pc' = "rows"
    /\ UNCHANGED <<input, output, window, business_days, capacity_seconds, me, inflight,
                   issues, start_at, idx, logs, widx, seconds, total, per_issue, stderr,
                   exit_code, source, reqlog, expected, unsorted, failure, timed_out,
                   bad>>

\* lines 213-217: one row
RowLine(k, r, run) ==
    [kind |-> "row", rank |-> k, key |-> r.key, time |-> r.seconds,
     cumulated |-> run, summary |-> r.summary]

PrintRow ==
    /\ pc = "rows" /\ rank <= Len(per_issue)
    /\ running' = running + per_issue[rank].seconds
    /\ stdout' = Append(stdout, RowLine(rank, per_issue[rank], running'))
    /\ rank' = rank + 1
    /\ UNCHANGED <<pc, input, output, window, business_days, capacity_seconds, me,
                   inflight, issues, start_at, idx, logs, widx, seconds, total,
                   per_issue, stderr, exit_code, source, reqlog, expected, unsorted,
                   failure, timed_out, bad>>

\* lines 219 and 223: return 0, raise SystemExit(0)
Return ==
    /\ pc = "rows" /\ rank > Len(per_issue)
    /\ exit_code' = 0
    /\ pc' = "exit"
    /\ UNCHANGED <<input, output, window, business_days, capacity_seconds, me, inflight,
                   issues, start_at, idx, logs, widx, seconds, total, per_issue, rank,
                   running, stdout, stderr, source, reqlog, expected, unsorted, failure,
                   timed_out, bad>>

\* the runs studied: --label-prefix " pr," --label-prefix "pr", and --month
\* 2024-02 or the malformed 2024-13
MainInputs ==
    {[month |-> m, now |-> <<2024, 2>>,
      label_prefix |-> << << <<" ", "p", "r">>, <<>> >>, << <<"p", "r">> >> >>] :
        m \in {MonthArg(<<Tok(2024), Tok(2)>>), MonthArg(<<Tok(2024), Tok(13)>>)}}

Idle ==
    /\ output = NoOutput
    /\ window = NoWindow
    /\ business_days = 0
    /\ capacity_seconds = 0
    /\ me = NoUser
    /\ inflight = NoRequest
    /\ issues = <<>>
    /\ start_at = 0
    /\ idx = 0
    /\ logs = <<>>
    /\ widx = 0
    /\ seconds = 0
    /\ total = 0
    /\ per_issue = <<>>
    /\ rank = 0
    /\ running = 0
    /\ stdout = <<>>
    /\ stderr = <<>>
    /\ exit_code = NotExited
    /\ reqlog = <<>>
    /\ expected = <<>>
    /\ unsorted = <<>>
    /\ failure = NoFailure
    /\ timed_out = FALSE
    /\ bad = "none"

Init ==
    /\ pc = "start"
    /\ input \in MainInputs
    /\ source = NoSource
    /\ Idle

Next ==
    \/ Resolve
    \/ SendMyself
    \/ \E resp \in MyselfResponses : RecvMyself(resp)
    \/ SendSearch
    \/ \E resp \in SearchResponses(Len(issues)) : SearchPage(resp)
    \/ NextIssue
    \/ SendWorklog
    \/ pc = "worklogs" /\ \E resp \in WorklogResponses(Len(logs), window) : WorklogPage(resp)
    \/ NextEntry
    \/ EndIssue
    \/ Sort
    \/ PrintHeader
    \/ PrintRow
    \/ Return

Spec == Init /\ [][Next]_vars

\* ------------------------------------------- the calendar functions alone

\* count_business_days applied to a pair of dates
CountRange ==
    /\ pc = "count"
    /\ output' = [kind |-> "count",
                  value |-> count_business_days(input.start_inclusive,
                                                input.end_exclusive)]
    /\ pc' = "counted"
    /\ UNCHANGED <<input, window, business_days, capacity_seconds, me, inflight, issues,
                   start_at, idx, logs, widx, seconds, total, per_issue, rank, running,
                   stdout, stderr, exit_code, source, reqlog, expected, unsorted,
                   failure, timed_out, bad>>

CalYears == MinYear..MaxYear

MonthInputs ==
    {[month |-> m, now |-> n, label_prefix |-> << << <<"p", "r">> >> >>] :
        m \in {MonthArg(<<Tok(y), Tok(mo)>>) : y \in CalYears, mo \in 0..13}
              \cup {MonthArg(<<Tok(2024)>>), MonthArg(<<NotInt, Tok(2)>>),
                    MonthArg(<<Tok(2024), NotInt>>),
                    MonthArg(<<Tok(2024), Tok(2), Tok(1)>>),
                    MonthArg(<<Tok(0), Tok(5)>>), MonthArg(<<Tok(9999), Tok(12)>>),
                    NoMonth, BlankMonth},
        n \in {<<MinYear, 12>>, <<MaxYear, 6>>}}

\* ranges that begin on the first of a month (year, mon) and end k days later
RangeInputs ==
    {[year |-> y, mon |-> mo, start_inclusive |-> Ordinal(y, mo, 1),
      end_exclusive |-> Ordinal(y, mo, 1) + k] :
        y \in CalYears, mo \in 1..12, k \in (0 - 2)..9}

InitCal ==
    /\ \/ pc = "start" /\ input \in MonthInputs
       \/ pc = "count" /\ input \in RangeInputs
    /\ source = NoSource
    /\ Idle

NextCal ==
    \/ Resolve
    \/ CountRange

SpecCal == InitCal /\ [][NextCal]_vars

\* ------------------------------------------------ the window test alone

\* lines 183-187 applied to one entry with seconds = 0
ApplyEntry ==
    /\ pc = "entry"
    /\ output' = EntryStep(input.wl, input.uid, input.window, 0)
    /\ pc' = "entry_done"
    /\ UNCHANGED <<input, window, business_days, capacity_seconds, me, inflight, issues,
                   start_at, idx, logs, widx, seconds, total, per_issue, rank, running,
                   stdout, stderr, exit_code, source, reqlog, expected, unsorted,
                   failure, timed_out, bad>>

\* UTC offsets a tracker may write instants in
SourceOffsets == {0 - 300, 0, 60, 120, 330}

\* entries of either author that start on, one minute before and one minute
\* after each end of a month's window
WindowEntries(w) ==
    {[uid |-> "me", window |-> w, wl |-> Entry(a, Stamp(b + d, off, fr), 1)] :
        a \in {"me", "you"}, b \in {UtcOf(w.start), UtcOf(w.end_excl)},
        d \in {0 - 1, 0, 1}, off \in SourceOffsets, fr \in BOOLEAN}

WindowInputs ==
    UNION {WindowEntries(BoundsOf(<<y, mo>>, y, mo)) : y \in CalYears, mo \in 1..12}

InitWin ==
    /\ pc = "entry"
    /\ input \in WindowInputs
    /\ source = NoSource
    /\ Idle

NextWin == ApplyEntry

SpecWin == InitWin /\ [][NextWin]_vars

\* ---------------------------------------------- the two paging loops alone

SourceCaps == {0, 60, 100}

Sources == [n : 0..MaxTotal, cap : SourceCaps]

InitPage ==
    /\ source \in Sources
    /\ input = [month |-> NoMonth, now |-> <<2024, 2>>,
                label_prefix |-> << << <<"p", "r">> >> >>]
    /\ output = NoOutput
    /\ window = NoWindow
    /\ business_days = 0
    /\ capacity_seconds = 0
    /\ me = [accountId |-> "me", displayName |-> "Me"]
    /\ inflight = NoRequest
    /\ start_at = 0
    /\ logs = <<>>
    /\ widx = 0
    /\ seconds = 0
    /\ total = 0
    /\ per_issue = <<>>
    /\ rank = 0
    /\ running = 0
    /\ stdout = <<>>
    /\ stderr = <<>>
    /\ exit_code = NotExited
    /\ reqlog = <<>>
    /\ expected = <<>>
    /\ unsorted = <<>>
    /\ failure = NoFailure
    /\ timed_out = FALSE
    /\ bad = "none"
    /\ \/ pc = "search" /\ issues = <<>> /\ idx = 0
       \/ pc = "worklogs" /\ issues = <<IssueAt(1, << <<"p", "r">> >>)>> /\ idx = 1

NextPage ==
    \/ SendSearch
    \/ SearchPage(SourceResponse(inflight))
    \/ SendWorklog
    \/ WorklogPage(SourceResponse(inflight))

\* The process is never descheduled for good: a step that can be taken is taken.
SpecPage == InitPage /\ [][NextPage]_vars /\ WF_vars(NextPage)

\* ============================================================== properties

\* ---- C7 (SpecCal)

\* weekday of a calendar date by Sakamoto's rule, Monday = 0
SakamotoWeekday(y, m, d) ==
    LET t == <<0, 3, 2, 5, 0, 3, 5, 1, 4, 6, 2, 4>>
        yy == IF m < 3 THEN y - 1 ELSE y
        dow == (yy + (yy \div 4) - (yy \div 100) + (yy \div 400) + t[m] + d) % 7
    IN  (dow + 6) % 7

\* number of Monday-to-Friday dates among the first n days of a month
WeekdaysAmong(y, m, n) ==
    Cardinality({d \in 1..n : SakamotoWeekday(y, m, d) < 5})

\* C7: count_business_days(start, end) is the number of Monday-to-Friday dates
\* d with start <= d < end: 0 when start >= end, and over the window that
\* resolve_month_bounds gives for a year-month (first of the month to first
\* of the following month, December rolling into January) the number of
\* Monday-to-Friday dates of that month, 21 for 2024-02.
BusinessDaysCounted ==
    /\ pc = "counted" =>
         LET n == input.end_exclusive - input.start_inclusive IN
         /\ n <= 0 => output.value = 0
         /\ n > 0 => output.value = WeekdaysAmong(input.year, input.mon, n)
    /\ (pc = "myself" /\ window # NoWindow) =>
         LET y == window.ym[1]
             m == window.ym[2]
         IN  /\ window.start_d = Ordinal(y, m, 1)
             /\ window.end_d = Ordinal(y, m, DaysInMonth(y, m)) + 1
             /\ business_days = WeekdaysAmong(y, m, DaysInMonth(y, m))
             /\ (y = 2024 /\ m = 2) => business_days = 21

\* a December window, counted across the turn of the year
BusinessDaysCountedWitness ==
    /\ pc = "myself"
    /\ window # NoWindow
    /\ window.ym[2] = 12
    /\ window.end_d - window.start_d = 31
    /\ business_days >= 20

\* ---- C2 (SpecWin)

\* C2: an entry of the current user is counted if and only if its started
\* instant lies in [startInstant, endInstantExclusive): counted when it
\* equals startInstant, not counted when it equals endInstantExclusive,
\* whatever UTC offset the instant was written in.
WindowHalfOpen ==
    pc = "entry_done" =>
        LET wl == input.wl
            win == input.window
            counted == (output.seconds = wl.timeSpentSeconds)
        IN  /\ output.kind = "ok"
            /\ output.seconds \in {0, wl.timeSpentSeconds}
            /\ counted <=> Counts(wl, input.uid, win)
            /\ (wl.author.accountId = input.uid
                /\ InstantOf(wl.started) = UtcOf(win.start)) => counted
            /\ InstantOf(wl.started) = UtcOf(win.end_excl) => ~counted

\* an own entry that starts exactly at the end of the window, written at
\* UTC-05:00 (so on the last day of the month by its own clock), left out
WindowHalfOpenWitness ==
    /\ pc = "entry_done"
    /\ input.wl.author.accountId = input.uid
    /\ input.wl.started.tz = 0 - 300
    /\ InstantOf(input.wl.started) = UtcOf(input.window.end_excl)
    /\ input.wl.started.ord < input.window.end_d
    /\ output.seconds = 0

\* ---- C1 (SpecPage)

SearchReturned == pc = "issues"
WorklogsReturned == pc = "entries"

\* C1: against a source that reports a fixed total N and serves its N items
\* from startAt in pages of at most 100, search_issues and worklogs return
\* exactly the N items, each once and in source order.  On the way the list
\* is always the first start_at items of the source, and every request asks
\* for an item not yet gathered (or is the one request to an empty source).
PaginationExact ==
    /\ SearchReturned =>
          /\ Len(issues) = source.n
          /\ \A k \in 1..Len(issues) : issues[k].key = k
    /\ WorklogsReturned =>
          /\ Len(logs) = source.n
          /\ \A k \in 1..Len(logs) : logs[k].id = k
    /\ pc = "search" =>
          /\ Len(issues) = start_at
          /\ \A k \in 1..Len(issues) : issues[k].key = k
    /\ pc = "worklogs" =>
          /\ Len(logs) = start_at
          /\ \A k \in 1..Len(logs) : logs[k].id = k
    /\ (inflight # NoRequest /\ source.cap >= 1) =>
          /\ inflight.startAt = start_at
          /\ inflight.startAt < source.n \/ (source.n = 0 /\ inflight.startAt = 0)

\* total = 150 in pages of 100: 150 items
PaginationExactWitness ==
    /\ SearchReturned
    /\ source.n = 150
    /\ source.cap >= 100
    /\ start_at = 150
    /\ Len(issues) = 150
    /\ issues[101].key = 101

\* ---- C10 (SpecPage)

\* C10: for every source that answers every request with status 200 and a
\* finite total, the loops of search_issues and worklogs stop after finitely
\* many requests, also when a page comes back empty or short of 100 items
\* while fewer items than the total have been gathered.
PagingTerminates == <>(SearchReturned \/ WorklogsReturned)

\* ---- C3 (Spec)

RECURSIVE SumSeconds(_)
SumSeconds(rows) ==
    IF rows = <<>> THEN 0 ELSE Head(rows).seconds + SumSeconds(Tail(rows))

\* p is an initial piece of lab
IsPrefixOf(p, lab) == \E n \in 0..Len(lab) : SubSeq(lab, 1, n) = p

LabelsMatch(labels) ==
    \E k \in 1..Len(labels) : IsPrefixOf(<<"p", "r">>, labels[k])

Aggregating == pc \in {"issues", "worklogs", "entries", "sort"}

\* C3: with S(i) the sum of the seconds of all entries of issue i that are
\* the current user's and start in the window, per_issue holds one row
\* (key, summary, S(i)) for each issue whose labels match and whose S(i) > 0,
\* in encounter order, no row for any other issue, and total is the sum of
\* the seconds of the rows.
AggregationExact ==
    /\ Aggregating =>
         /\ per_issue = expected
         /\ total = SumSeconds(per_issue)
         /\ \A k \in 1..Len(per_issue) :
              /\ per_issue[k].seconds > 0
              /\ per_issue[k].key \in 1..(idx - 1)
              /\ LabelsMatch(issues[per_issue[k].key].fields.labels)
              /\ per_issue[k].summary = issues[per_issue[k].key].fields.summary
              /\ k > 1 => per_issue[k - 1].key < per_issue[k].key
    /\ (pc \in {"header", "rows"} \/ exit_code = 0) => total = SumSeconds(expected)

\* two issues: the first matches no prefix, the second has two entries of
\* 1 s and 2 s that count, and one row of 3 s results
AggregationExactWitness ==
    /\ pc = "sort"
    /\ Len(issues) = 2
    /\ ~LabelsMatch(issues[1].fields.labels)
    /\ Len(logs) = 2
    /\ per_issue = <<[key |-> 2, summary |-> <<"summary", 2>>, seconds |-> 3]>>
    /\ total = 3

\* ---- C4 (Spec)

FailedFast ==
    failure # NoFailure =>
        /\ pc = "exit"
        /\ exit_code = 2
        /\ Len(stderr) = 1
        /\ stderr[1].kind = "ERROR"
        /\ stderr[1].msg[1] = "HTTP"
        /\ stderr[1].msg[2] = failure.status
        /\ stderr[1].msg[5] = failure.text
        /\ stdout = <<>>
        /\ inflight = NoRequest

\* C4: the first response whose status is not 200 ends the run with exit
\* code 2 after one ERROR line with the status and body on stderr; from then
\* on nothing happens: no request, no further issue, no line on stdout, and
\* none was printed before.
FailFast ==
    /\ []FailedFast
    /\ [][failure # NoFailure => UNCHANGED vars]_vars

\* status 500 on the worklog page of the second issue, after the first
\* issue had given a row
FailFastWitness ==
    /\ failure.status = 500
    /\ pc = "exit"
    /\ idx = 2
    /\ Len(per_issue) = 1
    /\ reqlog[Len(reqlog)] = [ep |-> "worklog", key |-> 2]

\* ---- C5 (Spec)

ReportPrinted ==
    /\ Len(stdout) >= Len(HeaderLines)
    /\ stderr = <<>>

ErrorLineOnly ==
    /\ Len(stderr) = 1
    /\ stderr[1].kind = "ERROR"
    /\ stdout = <<>>

\* C5: a request that runs into the 60-second timeout is treated like a
\* non-success response (exit code 2, a single ERROR line, no report), and
\* every run ends either with exit code 0 and a report or with exit code 2
\* and an ERROR line.
EveryRunEndsZeroOrTwo ==
    pc = "exit" =>
        \/ exit_code = 0 /\ ReportPrinted
        \/ exit_code = 2 /\ ErrorLineOnly

\* ---- C6 (Spec)

AfterSort == pc \in {"header", "rows"} \/ (pc = "exit" /\ exit_code = 0)

PositionIn(rows, r) == CHOOSE k \in 1..Len(rows) : rows[k] = r

RowLines == SelectSeq(stdout, LAMBDA l : l.kind = "row")

\* C6: the rows printed are the per-issue aggregates by seconds descending,
\* rows of equal seconds in encounter order; row k carries rank k and the
\* sum of the seconds of rows 1..k, so the cumulated column never decreases
\* and ends at the reported total.
ReportRanked ==
    AfterSort =>
        /\ Len(per_issue) = Len(unsorted)
        /\ {per_issue[k] : k \in 1..Len(per_issue)} = {unsorted[k] : k \in 1..Len(unsorted)}
        /\ \A a, b \in 1..Len(per_issue) :
              a < b =>
                 /\ per_issue[a].seconds >= per_issue[b].seconds
                 /\ per_issue[a].seconds = per_issue[b].seconds =>
                      PositionIn(unsorted, per_issue[a]) < PositionIn(unsorted, per_issue[b])
        /\ Len(RowLines) <= Len(per_issue)
        /\ \A k \in 1..Len(RowLines) :
              /\ RowLines[k].rank = k
              /\ RowLines[k].key = per_issue[k].key
              /\ RowLines[k].time = per_issue[k].seconds
              /\ RowLines[k].cumulated = SumSeconds(SubSeq(per_issue, 1, k))
              /\ k > 1 => RowLines[k - 1].cumulated <= RowLines[k].cumulated
        /\ pc = "exit" =>
              /\ Len(RowLines) = Len(per_issue)
              /\ Len(RowLines) > 0 => RowLines[Len(RowLines)].cumulated = total

\* two rows of equal seconds, printed in encounter order
ReportRankedWitness ==
    /\ pc = "exit"
    /\ exit_code = 0
    /\ Len(RowLines) = 2
    /\ RowLines[1].time = 3
    /\ RowLines[2].time = 3
    /\ RowLines[1].key = 1
    /\ RowLines[2].cumulated = 6

\* ---- C8 (Spec)

\* C8 as claimed: if any entry fetched for a matching issue carries a started
\* string that neither format accepts, whoever its author, the run aborts
\* with exit code 2, an ERROR line and no report.  Stated for the runs in
\* which no request timed out.
BadTimestampAborts ==
    (bad # "none" /\ pc = "exit" /\ ~timed_out) =>
        exit_code = 2 /\ ErrorLineOnly

\* C8 as amended: if an entry of the current user in the list worklogs
\* returned for a matching issue carries a started string that neither
\* format accepts, the run goes no further than that list: it aborts with
\* exit code 2, the one ERROR line naming the string, and no report.
OwnBadTimestampAborts ==
    bad = "own" =>
        /\ pc \in {"entries", "exit"}
        /\ stdout = <<>>
        /\ pc = "exit" =>
              /\ exit_code = 2
              /\ ErrorLineOnly
              /\ stderr[1].msg[1] = "Cannot parse Jira worklog timestamp"
              /\ stderr[1].msg[2] = logs[widx].started
              /\ ~WellFormed(logs[widx].started)
              /\ logs[widx].author.accountId = me.accountId

\* the unparsable entry is the second of the list, behind one that counted
OwnBadTimestampAbortsWitness ==
    /\ bad = "own"
    /\ pc = "exit"
    /\ widx = 2
    /\ seconds > 0
    /\ exit_code = 2

\* ---- C9 (Spec)

CallsInOrder ==
    /\ \A k \in 1..Len(reqlog) :
          /\ k = 1 => reqlog[k].ep = "myself"
          /\ k = 2 => reqlog[k].ep = "search"
          /\ k >= 3 =>
                /\ reqlog[k].ep = "worklog"
                /\ pc \notin {"start", "myself", "search"}
                /\ reqlog[k].key \in 1..idx
                /\ LabelsMatch(issues[reqlog[k].key].fields.labels)
                /\ k > 3 => reqlog[k - 1].key < reqlog[k].key
    /\ inflight # NoRequest =>
          /\ pc \in {"myself", "search", "worklogs"}
          /\ reqlog # <<>>
          /\ reqlog[Len(reqlog)] = [ep |-> inflight.ep, key |-> inflight.key]
    /\ stdout # <<>> => inflight = NoRequest /\ pc \in {"rows", "exit"}

\* C9: a worklog request is sent for an issue only if its labels match a
\* normalized prefix; requests go one at a time, the identity lookup first,
\* then the search pages, then the worklog pages issue by issue in search
\* order; and no line of the report is printed before the last request has
\* returned.
CallOrder ==
    /\ []CallsInOrder
    /\ [][stdout # <<>> => (reqlog' = reqlog /\ inflight' = NoRequest)]_vars
    /\ [][inflight # NoRequest => (inflight' = NoRequest /\ reqlog' = reqlog)]_vars

\* the first issue has labels but none with the prefix and is passed over;
\* the report is out after the worklogs of the second were fetched
CallOrderWitness ==
    /\ pc = "exit"
    /\ exit_code = 0
    /\ Len(issues) = 2
    /\ issues[1].fields.labels # <<>>
    /\ ~LabelsMatch(issues[1].fields.labels)
    /\ reqlog = <<[ep |-> "myself", key |-> 0], [ep |-> "search", key |-> 0],
                  [ep |-> "worklog", key |-> 2]>>
    /\ Len(RowLines) = 1

====
